---- MODULE Spec2Model ----
(***************************************************************************)
(* State-machine model of the OpenSquawk MSFS bridge                       *)
(* (wasm/opensquawk_bridge/src/Bridge.h, Bridge.cpp, exports.cpp).         *)
(*                                                                         *)
(* The bridge is the singleton osb::Bridge; the host is the SimConnect     *)
(* client library, modelled by what the bridge can observe of it: open     *)
(* handles, the data definitions and subscriptions registered on each      *)
(* handle, and the queue of messages waiting for SimConnect_CallDispatch.  *)
(*                                                                         *)
(* Numbers of type double are modelled as integers counting thousandths    *)
(* (1234567 stands for 1234.567); milliseconds are plain integers.         *)
(***************************************************************************)
EXTENDS Integers, Sequences, FiniteSets, TLC

----------------------------------------------------------------------------
(* Bounds of the model.                                                    *)

\* The clock moves in steps of ClockStep ms, from 0 up to MaxTicks steps.
ClockStep == 1000
MaxTicks == 5
\* Messages the host keeps queued on one connection.
MaxQueue == 2
\* Handles the host hands out over a run.
MaxHandles == 2

MaxTime == MaxTicks * ClockStep
ClockValues == { k * ClockStep : k \in 0..MaxTicks }

----------------------------------------------------------------------------
(* Program constants.                                                      *)

kUserObjectId == 0
kRequestTelemetry == 1
kDefTelemetry == 1
kDefTransponder == 10
kDefAdfActive == 11
kDefAdfStandby == 12
kDefGearHandle == 13
kDefFlapsIndex == 14
kDefParkingBrake == 15
kDefAutopilot == 16

\* if (now - last_connect_attempt_ms_ < 2000)
kCooldownMs == 2000
\* HANDLE simconnect_ = nullptr
kNullHandle == 0
\* sizeof(uint32_t), sizeof(double)
kSizeofUint32 == 4
kSizeofDouble == 8

DefIds == { kDefTelemetry, kDefTransponder, kDefAdfActive, kDefAdfStandby,
            kDefGearHandle, kDefFlapsIndex, kDefParkingBrake, kDefAutopilot }

\* A request id the bridge never issues (a data message for it must be ignored).
kOtherRequest == 2

----------------------------------------------------------------------------
(* printf("%.<p>f") of a double given in thousandths.                      *)
(* Rounding is to nearest; an exact decimal tie goes to the even digit,    *)
(* as printf does for a double that holds the tie exactly.                 *)

Abs(v) == IF v < 0 THEN 0 - v ELSE v

RECURSIVE Pow10(_)
Pow10(n) == IF n = 0 THEN 1 ELSE 10 * Pow10(n - 1)

RECURSIVE Zeros(_)
Zeros(n) == IF n <= 0 THEN "" ELSE "0" \o Zeros(n - 1)

RECURSIVE NumDigits(_)
NumDigits(n) == IF n < 10 THEN 1 ELSE 1 + NumDigits(n \div 10)

\* n >= 0 written with at least w digits, zero-padded on the left.
Padded(n, w) == Zeros(w - NumDigits(n)) \o ToString(n)

RoundHalfEven(a, d) ==
  LET q == a \div d
      r == a % d
  IN  IF 2 * r > d \/ (2 * r = d /\ q % 2 = 1) THEN q + 1 ELSE q

FormatF(v, p) ==
  LET a    == Abs(v)
      sign == IF v < 0 THEN "-" ELSE ""
  IN  IF p >= 3
        THEN sign \o ToString(a \div 1000) \o "." \o Padded(a % 1000, 3) \o Zeros(p - 3)
        ELSE LET m == RoundHalfEven(a, Pow10(3 - p))
             IN  IF p = 0
                   THEN sign \o ToString(m)
                   ELSE sign \o ToString(m \div Pow10(p)) \o "." \o Padded(m % Pow10(p), p)

----------------------------------------------------------------------------
(* State.                                                                  *)

VARIABLES
  \* osb::Bridge
  simconnect_, connected_, snapshot_valid_, snapshot_ts_ms_,
  last_connect_attempt_ms_, snapshot_, snapshot_json_,
  \* the host: handle -> [defs, subs, queue], and the next handle it hands out
  hostConn, nextHandle,
  \* std::chrono::steady_clock, in ms
  now,
  \* history of the last step: whether it accepted a data message
  accepted,
  \* history of the run: the tuple of the last accepted data message, the
  \* times of the last two SimConnect_Open calls, the handle that was live
  \* when the last data message was accepted, what last closed the bridge
  lastData, openTimes, dataHandle, closedBy

vars == << simconnect_, connected_, snapshot_valid_, snapshot_ts_ms_,
           last_connect_attempt_ms_, snapshot_, snapshot_json_,
           hostConn, nextHandle, now, accepted,
           lastData, openTimes, dataHandle, closedBy >>

\* struct TelemetrySnapshot, every member 0.0
TelemetrySnapshot ==
  [ latitude_deg |-> 0, longitude_deg |-> 0, altitude_ft_true |-> 0,
    altitude_ft_indicated |-> 0, ias_kt |-> 0, tas_kt |-> 0,
    ground_velocity_mps |-> 0, turbine_n1_pct |-> 0, on_ground |-> 0,
    engine_combustion |-> 0, transponder_code |-> 0, adf_active_freq_khz |-> 0,
    adf_standby_freq_khz |-> 0, vertical_speed_fpm |-> 0, pitch_deg |-> 0,
    turbine_n1_pct_2 |-> 0, gear_handle |-> 0, flaps_index |-> 0,
    parking_brake |-> 0, autopilot_master |-> 0 ]

\* The state the operators below transform: the variables as one record,
\* with trace, the host calls made so far in the step, and delivered, the
\* messages handed to DispatchProc so far in the step.
Cur ==
  [ simconnect_ |-> simconnect_, connected_ |-> connected_,
    snapshot_valid_ |-> snapshot_valid_, snapshot_ts_ms_ |-> snapshot_ts_ms_,
    last_connect_attempt_ms_ |-> last_connect_attempt_ms_,
    snapshot_ |-> snapshot_, snapshot_json_ |-> snapshot_json_,
    hostConn |-> hostConn, nextHandle |-> nextHandle,
    trace |-> << >>, delivered |-> << >>, accepted |-> accepted, lastData |-> lastData,
    openTimes |-> openTimes, dataHandle |-> dataHandle, closedBy |-> closedBy ]

\* The state at the start of a step: the per-step history is empty.
Begin == [ Cur EXCEPT !.accepted = FALSE ]

Commit(st) ==
  /\ simconnect_' = st.simconnect_
  /\ connected_' = st.connected_
  /\ snapshot_valid_' = st.snapshot_valid_
  /\ snapshot_ts_ms_' = st.snapshot_ts_ms_
  /\ last_connect_attempt_ms_' = st.last_connect_attempt_ms_
  /\ snapshot_' = st.snapshot_
  /\ snapshot_json_' = st.snapshot_json_
  /\ hostConn' = st.hostConn
  /\ nextHandle' = st.nextHandle
  /\ accepted' = st.accepted
  /\ lastData' = st.lastData
  /\ openTimes' = st.openTimes
  /\ dataHandle' = st.dataHandle
  /\ closedBy' = st.closedBy

----------------------------------------------------------------------------
(* The host (SimConnect), as far as the bridge calls it.                   *)

\* One host call, as logged in trace. live tells whether the call was made
\* on a handle that was open at that moment (for SimConnect_Open: while no
\* handle was open); Logged fills it in.
HostCall(f, h, def, obj, name, unit, size, kind, val) ==
  [ f |-> f, h |-> h, def |-> def, obj |-> obj, name |-> name, unit |-> unit,
    size |-> size, kind |-> kind, val |-> val, live |-> FALSE ]

Logged(st, c) ==
  LET live == IF c.f = "Open"
                THEN DOMAIN st.hostConn = {}
                ELSE c.h \in DOMAIN st.hostConn
  IN  [ st EXCEPT !.trace = Append(@, [ c EXCEPT !.live = live ]) ]

Message(id, req, data) == [ id |-> id, req |-> req, data |-> data ]

FreshConn ==
  [ defs  |-> [ d \in DefIds |-> << >> ],
    subs  |-> << >>,
    queue |-> << Message("OPEN", 0, << >>) >> ]

LastTwo(s) == IF Len(s) > 2 THEN SubSeq(s, Len(s) - 1, Len(s)) ELSE s

\* SimConnect_Open(&simconnect_, ...): on success the handle is written and the
\* host queues its SIMCONNECT_RECV_OPEN message; on failure the handle is
\* left as it was.
SimConnect_Open(st, t, ok) ==
  LET h  == st.nextHandle
      s1 == [ Logged(st, HostCall("Open", 0, 0, 0, "OpenSquawkBridge", "", 0, "", 0))
                EXCEPT !.openTimes = LastTwo(Append(@, t)) ]
  IN  IF ok
        THEN [ s1 EXCEPT !.simconnect_ = h,
                         !.hostConn = (h :> FreshConn) @@ @,
                         !.nextHandle = h + 1 ]
        ELSE s1

SimConnect_AddToDataDefinition(st, def, name, unit) ==
  LET h  == st.simconnect_
      s1 == Logged(st, HostCall("AddToDataDefinition", h, def, 0, name, unit,
                                kSizeofDouble, "FLOAT64", 0))
  IN  IF h \in DOMAIN st.hostConn
        THEN [ s1 EXCEPT !.hostConn[h].defs[def] =
                            Append(@, [ name |-> name, unit |-> unit,
                                        type |-> "FLOAT64",
                                        size |-> kSizeofDouble ]) ]
        ELSE s1

SimConnect_RequestDataOnSimObject(st, req, def, obj, period, flag) ==
  LET h  == st.simconnect_
      s1 == Logged(st, HostCall("RequestDataOnSimObject", h, def, obj, period,
                                flag, 0, "", req))
  IN  IF h \in DOMAIN st.hostConn
        THEN [ s1 EXCEPT !.hostConn[h].subs =
                            Append(@, [ req |-> req, def |-> def, obj |-> obj,
                                        period |-> period, flag |-> flag ]) ]
        ELSE s1

SimConnect_Close(st, h) ==
  [ Logged(st, HostCall("Close", h, 0, 0, "", "", 0, "", 0))
      EXCEPT !.hostConn = [ x \in (DOMAIN @) \ {h} |-> @[x] ] ]

\* SimConnect_SetDataOnSimObject(h, def, obj, 0, 0, size, &value): the host
\* either takes the submission or rejects it.
SimConnect_SetDataOnSimObject(st, def, obj, size, kind, val) ==
  Logged(st, HostCall("SetDataOnSimObject", st.simconnect_, def, obj, "", "",
                      size, kind, val))

----------------------------------------------------------------------------
(* osb::Bridge.                                                            *)

\* Close() as it would be if it also forgot the time of the last attempt.
Close_ResetsCooldown(st) ==
  LET s1 == IF st.simconnect_ # kNullHandle
              THEN SimConnect_Close(st, st.simconnect_)
              ELSE st
  IN  [ s1 EXCEPT !.simconnect_ = kNullHandle,
                  !.connected_ = FALSE,
                  !.snapshot_valid_ = FALSE,
                  !.last_connect_attempt_ms_ = 0 ]

\* Close() as it would be if it released the handle without forgetting it.
Close_KeepsHandle(st) ==
  LET s1 == IF st.simconnect_ # kNullHandle
              THEN SimConnect_Close(st, st.simconnect_)
              ELSE st
  IN  [ s1 EXCEPT !.connected_ = FALSE,
                  !.snapshot_valid_ = FALSE ]

\* Close(): release the handle if there is one, then forget it.
\* Close() as it would be if it dropped the handle without closing it.
Close_LeaksHandle(st) ==
  [ st EXCEPT !.simconnect_ = kNullHandle,
              !.connected_ = FALSE,
              !.snapshot_valid_ = FALSE ]

Close(st) ==
  LET s1 == IF st.simconnect_ # kNullHandle
              THEN SimConnect_Close(st, st.simconnect_)
              ELSE st
  IN  [ s1 EXCEPT !.simconnect_ = kNullHandle,
                  !.connected_ = FALSE,
                  !.snapshot_valid_ = FALSE ]

\* The 27 SimConnect_AddToDataDefinition calls of EnsureConnected, in the
\* order the code makes them: the bulk definition, then the write definitions.
Registrations ==
  << << kDefTelemetry, "PLANE LATITUDE", "degrees" >>,
     << kDefTelemetry, "PLANE LONGITUDE", "degrees" >>,
     << kDefTelemetry, "PLANE ALTITUDE", "feet" >>,
     << kDefTelemetry, "INDICATED ALTITUDE", "feet" >>,
     << kDefTelemetry, "AIRSPEED INDICATED", "knots" >>,
     << kDefTelemetry, "AIRSPEED TRUE", "knots" >>,
     << kDefTelemetry, "GROUND VELOCITY", "meters per second" >>,
     << kDefTelemetry, "TURB ENG N1:1", "percent" >>,
     << kDefTelemetry, "SIM ON GROUND", "bool" >>,
     << kDefTelemetry, "ENG COMBUSTION:1", "bool" >>,
     << kDefTelemetry, "TRANSPONDER CODE:1", "bco16" >>,
     << kDefTelemetry, "ADF ACTIVE FREQUENCY:1", "kilohertz" >>,
     << kDefTelemetry, "ADF STANDBY FREQUENCY:1", "kilohertz" >>,
     << kDefTelemetry, "VERTICAL SPEED", "feet per minute" >>,
     << kDefTelemetry, "PLANE PITCH DEGREES", "degrees" >>,
     << kDefTelemetry, "TURB ENG N1:2", "percent" >>,
     << kDefTelemetry, "GEAR HANDLE POSITION", "bool" >>,
     << kDefTelemetry, "FLAPS HANDLE INDEX", "number" >>,
     << kDefTelemetry, "BRAKE PARKING POSITION", "bool" >>,
     << kDefTelemetry, "AUTOPILOT MASTER", "bool" >>,
     << kDefTransponder, "TRANSPONDER CODE:1", "bco16" >>,
     << kDefAdfActive, "ADF ACTIVE FREQUENCY:1", "kilohertz" >>,
     << kDefAdfStandby, "ADF STANDBY FREQUENCY:1", "kilohertz" >>,
     << kDefGearHandle, "GEAR HANDLE POSITION", "bool" >>,
     << kDefFlapsIndex, "FLAPS HANDLE INDEX", "number" >>,
     << kDefParkingBrake, "BRAKE PARKING POSITION", "bool" >>,
     << kDefAutopilot, "AUTOPILOT MASTER", "bool" >> >>

\* The registrations in order, each made on the state the one before left
\* (s1, computed once).
RECURSIVE Register(_, _)
Register(st, regs) ==
  IF regs = << >>
    THEN st
    ELSE CHOOSE r \in { Register(s1, Tail(regs)) :
                           s1 \in { SimConnect_AddToDataDefinition(
                                      st, Head(regs)[1], Head(regs)[2],
                                      Head(regs)[3]) } } : TRUE

\* RequestTelemetry() as it would be if it subscribed to a write definition.
RequestTelemetry_WrongDef(st) ==
  SimConnect_RequestDataOnSimObject(st, kRequestTelemetry, kDefTransponder,
                                    kUserObjectId, "SECOND", "CHANGED")

RequestTelemetry(st) ==
  SimConnect_RequestDataOnSimObject(st, kRequestTelemetry, kDefTelemetry,
                                    kUserObjectId, "SECOND", "CHANGED")

\* EnsureConnected() as it would be without the early return when connected.
EnsureConnected_NoEarlyReturn(st, t, ok) ==
  IF t - st.last_connect_attempt_ms_ < kCooldownMs
    THEN [ st |-> st, ret |-> st.connected_ ]
    ELSE LET s1 == [ st EXCEPT !.last_connect_attempt_ms_ = t ]
             s2 == SimConnect_Open(s1, t, ok)
         IN  IF ok
               THEN [ st  |-> RequestTelemetry(
                                Register([ s2 EXCEPT !.connected_ = TRUE ],
                                         Registrations)),
                      ret |-> TRUE ]
               ELSE [ st |-> s2, ret |-> st.connected_ ]

\* EnsureConnected() as it would be if it set connected_ before looking at
\* the result of the open.
EnsureConnected_FlagFirst(st, t, ok) ==
  IF st.connected_
    THEN [ st |-> st, ret |-> TRUE ]
    ELSE IF t - st.last_connect_attempt_ms_ < kCooldownMs
      THEN [ st |-> st, ret |-> FALSE ]
      ELSE LET s1 == [ st EXCEPT !.last_connect_attempt_ms_ = t,
                                 !.connected_ = TRUE ]
               s2 == SimConnect_Open(s1, t, ok)
           IN  IF ok
                 THEN [ st  |-> RequestTelemetry(Register(s2, Registrations)),
                        ret |-> TRUE ]
                 ELSE [ st |-> s2, ret |-> FALSE ]

\* EnsureConnected(): t is NowMs(), ok is whether the host accepts the open
\* should the bridge attempt one. The clock never runs backwards, so the
\* unsigned difference t - last_connect_attempt_ms_ does not wrap.
\* EnsureConnected() as it would be if a call inside the cooldown restarted
\* the cooldown.
EnsureConnected_SlidingCooldown(st, t, ok) ==
  IF st.connected_
    THEN [ st |-> st, ret |-> TRUE ]
    ELSE IF t - st.last_connect_attempt_ms_ < kCooldownMs
      THEN [ st |-> [ st EXCEPT !.last_connect_attempt_ms_ = t ], ret |-> FALSE ]
      ELSE LET s1 == [ st EXCEPT !.last_connect_attempt_ms_ = t ]
               s2 == SimConnect_Open(s1, t, ok)
           IN  IF ok
                 THEN [ st  |-> RequestTelemetry(
                                  Register([ s2 EXCEPT !.connected_ = TRUE ],
                                           Registrations)),
                        ret |-> TRUE ]
                 ELSE [ st |-> s2, ret |-> FALSE ]

EnsureConnected(st, t, ok) ==
  IF st.connected_
    THEN [ st |-> st, ret |-> TRUE ]
    ELSE IF t - st.last_connect_attempt_ms_ < kCooldownMs
      THEN [ st |-> st, ret |-> FALSE ]
      ELSE LET s1 == [ st EXCEPT !.last_connect_attempt_ms_ = t ]
               s2 == SimConnect_Open(s1, t, ok)
           IN  IF ok
                 THEN [ st  |-> RequestTelemetry(
                                  Register([ s2 EXCEPT !.connected_ = TRUE ],
                                           Registrations)),
                        ret |-> TRUE ]
                 ELSE [ st |-> s2, ret |-> FALSE ]

\* snprintf into char buffer[1024]: at most 1023 characters are kept.
kBufferSize == 1024
Snprintf(s) == IF Len(s) < kBufferSize THEN s ELSE SubSeq(s, 1, kBufferSize - 1)

\* s is snapshot_, read once.
BuildSnapshotJson(st) ==
  CHOOSE r \in {
      [ st EXCEPT !.snapshot_json_ = Snprintf(
          "{\"latitude\":" \o FormatF(s.latitude_deg, 8)
          \o ",\"longitude\":" \o FormatF(s.longitude_deg, 8)
          \o ",\"altitude_ft_true\":" \o FormatF(s.altitude_ft_true, 2)
          \o ",\"altitude_ft_indicated\":" \o FormatF(s.altitude_ft_indicated, 2)
          \o ",\"ias_kt\":" \o FormatF(s.ias_kt, 2)
          \o ",\"tas_kt\":" \o FormatF(s.tas_kt, 2)
          \o ",\"ground_velocity_mps\":" \o FormatF(s.ground_velocity_mps, 3)
          \o ",\"turbine_n1_pct\":" \o FormatF(s.turbine_n1_pct, 2)
          \o ",\"on_ground\":" \o FormatF(s.on_ground, 0)
          \o ",\"engine_combustion\":" \o FormatF(s.engine_combustion, 0)
          \o ",\"transponder_code\":" \o FormatF(s.transponder_code, 0)
          \o ",\"adf_active_freq_khz\":" \o FormatF(s.adf_active_freq_khz, 3)
          \o ",\"adf_standby_freq_khz\":" \o FormatF(s.adf_standby_freq_khz, 3)
          \o ",\"vertical_speed_fpm\":" \o FormatF(s.vertical_speed_fpm, 1)
          \o ",\"pitch_deg\":" \o FormatF(s.pitch_deg, 2)
          \o ",\"turbine_n1_pct_2\":" \o FormatF(s.turbine_n1_pct_2, 2)
          \o ",\"gear_handle\":" \o FormatF(s.gear_handle, 0)
          \o ",\"flaps_index\":" \o FormatF(s.flaps_index, 0)
          \o ",\"parking_brake\":" \o FormatF(s.parking_brake, 0)
          \o ",\"autopilot_master\":" \o FormatF(s.autopilot_master, 0)
          \o "}") ] : s \in { st.snapshot_ } } : TRUE

\* struct TelemetryData as it would be with ias_kt and tas_kt declared in the
\* other order.
TelemetryData_Swapped(d) ==
  [ latitude_deg |-> d[1], longitude_deg |-> d[2], altitude_ft_true |-> d[3],
    altitude_ft_indicated |-> d[4], ias_kt |-> d[6], tas_kt |-> d[5],
    ground_velocity_mps |-> d[7], turbine_n1_pct |-> d[8], on_ground |-> d[9],
    engine_combustion |-> d[10], transponder_code |-> d[11],
    adf_active_freq_khz |-> d[12], adf_standby_freq_khz |-> d[13],
    vertical_speed_fpm |-> d[14], pitch_deg |-> d[15], turbine_n1_pct_2 |-> d[16],
    gear_handle |-> d[17], flaps_index |-> d[18], parking_brake |-> d[19],
    autopilot_master |-> d[20] ]

\* reinterpret_cast<const TelemetryData *>(&recv->dwData): the message's
\* consecutive doubles read through the members of struct TelemetryData.
TelemetryData(d) ==
  [ latitude_deg |-> d[1], longitude_deg |-> d[2], altitude_ft_true |-> d[3],
    altitude_ft_indicated |-> d[4], ias_kt |-> d[5], tas_kt |-> d[6],
    ground_velocity_mps |-> d[7], turbine_n1_pct |-> d[8], on_ground |-> d[9],
    engine_combustion |-> d[10], transponder_code |-> d[11],
    adf_active_freq_khz |-> d[12], adf_standby_freq_khz |-> d[13],
    vertical_speed_fpm |-> d[14], pitch_deg |-> d[15], turbine_n1_pct_2 |-> d[16],
    gear_handle |-> d[17], flaps_index |-> d[18], parking_brake |-> d[19],
    autopilot_master |-> d[20] ]

\* HandleDispatch() as it would be without the test of dwRequestID.
HandleDispatch_AnyRequest(st, ev, t) ==
  CASE ev.id = "QUIT" -> [ Close(st) EXCEPT !.closedBy = "quit" ]
    [] ev.id = "SIMOBJECT_DATA" ->
         BuildSnapshotJson([ st EXCEPT !.snapshot_ = TelemetryData(ev.data),
                                       !.snapshot_valid_ = TRUE,
                                       !.snapshot_ts_ms_ = t,
                                       !.accepted = TRUE,
                                       !.lastData = ev.data ])
    [] OTHER -> st

\* HandleDispatch(data, cbData): ev is the message, t is NowMs().
HandleDispatch(st, ev, t) ==
  CASE ev.id = "OPEN" -> st
    [] ev.id = "QUIT" -> [ Close(st) EXCEPT !.closedBy = "quit" ]
    [] ev.id = "SIMOBJECT_DATA" ->
         IF ev.req # kRequestTelemetry
           THEN st
           ELSE LET telemetry == TelemetryData(ev.data)
                    s1 == [ st EXCEPT
                      !.snapshot_.latitude_deg = telemetry.latitude_deg,
                      !.snapshot_.longitude_deg = telemetry.longitude_deg,
                      !.snapshot_.altitude_ft_true = telemetry.altitude_ft_true,
                      !.snapshot_.altitude_ft_indicated = telemetry.altitude_ft_indicated,
                      !.snapshot_.ias_kt = telemetry.ias_kt,
                      !.snapshot_.tas_kt = telemetry.tas_kt,
                      !.snapshot_.ground_velocity_mps = telemetry.ground_velocity_mps,
                      !.snapshot_.turbine_n1_pct = telemetry.turbine_n1_pct,
                      !.snapshot_.on_ground = telemetry.on_ground,
                      !.snapshot_.engine_combustion = telemetry.engine_combustion,
                      !.snapshot_.transponder_code = telemetry.transponder_code,
                      !.snapshot_.adf_active_freq_khz = telemetry.adf_active_freq_khz,
                      !.snapshot_.adf_standby_freq_khz = telemetry.adf_standby_freq_khz,
                      !.snapshot_.vertical_speed_fpm = telemetry.vertical_speed_fpm,
                      !.snapshot_.pitch_deg = telemetry.pitch_deg,
                      !.snapshot_.turbine_n1_pct_2 = telemetry.turbine_n1_pct_2,
                      !.snapshot_.gear_handle = telemetry.gear_handle,
                      !.snapshot_.flaps_index = telemetry.flaps_index,
                      !.snapshot_.parking_brake = telemetry.parking_brake,
                      !.snapshot_.autopilot_master = telemetry.autopilot_master,
                      !.snapshot_valid_ = TRUE,
                      !.snapshot_ts_ms_ = t,
                      !.accepted = TRUE,
                      !.lastData = ev.data ]
                IN  BuildSnapshotJson(s1)
    [] OTHER -> st

\* SimConnect_CallDispatch(simconnect_, &Bridge::DispatchProc, this): the host
\* hands the messages queued on the handle to DispatchProc, oldest first.
\* When the callback closes the handle (a QUIT message), what the host does
\* with the messages still queued is not the bridge's choice: cont says
\* whether it goes on delivering them or drops them.
\* s1 is the state HandleDispatch leaves for the oldest message, computed once.
RECURSIVE DispatchProc(_, _, _, _)
DispatchProc(st, q, t, cont) ==
  IF q = << >>
    THEN st
    ELSE CHOOSE r \in
           { IF s1.simconnect_ = kNullHandle /\ ~cont
               THEN s1
               ELSE DispatchProc(s1, Tail(q), t, cont) :
             s1 \in { HandleDispatch([ st EXCEPT !.delivered = Append(@, Head(q)) ],
                                     Head(q), t) } } : TRUE

SimConnect_CallDispatch(st, t, cont) ==
  LET h  == st.simconnect_
      q  == IF h \in DOMAIN st.hostConn THEN st.hostConn[h].queue ELSE << >>
      s1 == Logged(st, HostCall("CallDispatch", h, 0, 0, "", "", 0, "", 0))
      s2 == IF h \in DOMAIN s1.hostConn
              THEN [ s1 EXCEPT !.hostConn[h].queue = << >> ]
              ELSE s1
      s3 == DispatchProc(s2, q, t, cont)
  IN  IF s3.accepted THEN [ s3 EXCEPT !.dataHandle = h ] ELSE s3

\* Tick() as it would be if it pumped without the test of connected_.
Tick_AlwaysPumps(st, t, ok, cont) ==
  SimConnect_CallDispatch(EnsureConnected(st, t, ok).st, t, cont)

\* Tick(): s1 is the state EnsureConnected() leaves, computed once.
Tick(st, t, ok, cont) ==
  CHOOSE r \in
    { IF s1.connected_ THEN SimConnect_CallDispatch(s1, t, cont) ELSE s1 :
      s1 \in { EnsureConnected(st, t, ok).st } } : TRUE

IsConnected(st) == st.connected_

HasSnapshot(st) == st.snapshot_valid_

\* SnapshotAgeMs() as it would be without the test of snapshot_valid_.
SnapshotAgeMs_IgnoresValid(st, t) ==
  IF t >= st.snapshot_ts_ms_ THEN t - st.snapshot_ts_ms_ ELSE 0

SnapshotAgeMs(st, t) ==
  IF ~st.snapshot_valid_
    THEN 0
    ELSE IF t >= st.snapshot_ts_ms_ THEN t - st.snapshot_ts_ms_ ELSE 0

\* GetSnapshotJson(): writes "{}" into the cached string when the snapshot is
\* invalid; the value returned is the cached string afterwards.
\* GetSnapshotJson() as it would be if it returned the cached string whether
\* or not the snapshot is valid.
GetSnapshotJson_NoEmpty(st) == st

GetSnapshotJson(st) ==
  IF ~st.snapshot_valid_
    THEN [ st EXCEPT !.snapshot_json_ = "{}" ]
    ELSE st

\* The setters. ok is whether the host takes the submission.
\* static_cast<uint32_t>(code) keeps a code >= 0 as it is; the model calls
\* the setter with codes >= 0 only.
SetTransponderCode(st, code, ok) ==
  IF ~st.connected_
    THEN [ st |-> st, ret |-> FALSE ]
    ELSE [ st  |-> SimConnect_SetDataOnSimObject(st, kDefTransponder, kUserObjectId,
                                                 kSizeofUint32, "uint32_t", code),
           ret |-> ok ]

SetAdfActiveKHz(st, value_khz, ok) ==
  IF ~st.connected_
    THEN [ st |-> st, ret |-> FALSE ]
    ELSE [ st  |-> SimConnect_SetDataOnSimObject(st, kDefAdfActive, kUserObjectId,
                                                 kSizeofDouble, "double", value_khz),
           ret |-> ok ]

\* SetAdfStandbyKHz() as it would be if it wrote to the definition of the
\* active frequency.
SetAdfStandbyKHz_ActiveDef(st, value_khz, ok) ==
  IF ~st.connected_
    THEN [ st |-> st, ret |-> FALSE ]
    ELSE [ st  |-> [ st EXCEPT !.trace =
                       Append(@, [ f |-> "SetDataOnSimObject", h |-> st.simconnect_,
                                   def |-> kDefAdfActive, obj |-> kUserObjectId,
                                   name |-> "", unit |-> "",
                                   size |-> kSizeofDouble, kind |-> "double",
                                   val |-> value_khz,
                                   live |-> st.simconnect_ \in DOMAIN st.hostConn ]) ],
           ret |-> ok ]

SetAdfStandbyKHz(st, value_khz, ok) ==
  IF ~st.connected_
    THEN [ st |-> st, ret |-> FALSE ]
    ELSE [ st  |-> SimConnect_SetDataOnSimObject(st, kDefAdfStandby, kUserObjectId,
                                                 kSizeofDouble, "double", value_khz),
           ret |-> ok ]

\* SetGearHandle() as it would be without the test of connected_.
SetGearHandle_Unguarded(st, on, ok) ==
  [ st  |-> SimConnect_SetDataOnSimObject(st, kDefGearHandle, kUserObjectId,
                                          kSizeofDouble, "double",
                                          IF on THEN 1000 ELSE 0),
    ret |-> ok ]

SetGearHandle(st, on, ok) ==
  IF ~st.connected_
    THEN [ st |-> st, ret |-> FALSE ]
    ELSE [ st  |-> SimConnect_SetDataOnSimObject(st, kDefGearHandle, kUserObjectId,
                                                 kSizeofDouble, "double",
                                                 IF on THEN 1000 ELSE 0),
           ret |-> ok ]

\* static_cast<double>(index): the integer as a double (here: in thousandths).
SetFlapsIndex(st, index, ok) ==
  IF ~st.connected_
    THEN [ st |-> st, ret |-> FALSE ]
    ELSE [ st  |-> SimConnect_SetDataOnSimObject(st, kDefFlapsIndex, kUserObjectId,
                                                 kSizeofDouble, "double", index * 1000),
           ret |-> ok ]

SetParkingBrake(st, on, ok) ==
  IF ~st.connected_
    THEN [ st |-> st, ret |-> FALSE ]
    ELSE [ st  |-> SimConnect_SetDataOnSimObject(st, kDefParkingBrake, kUserObjectId,
                                                 kSizeofDouble, "double",
                                                 IF on THEN 1000 ELSE 0),
           ret |-> ok ]

SetAutopilotMaster(st, on, ok) ==
  IF ~st.connected_
    THEN [ st |-> st, ret |-> FALSE ]
    ELSE [ st  |-> SimConnect_SetDataOnSimObject(st, kDefAutopilot, kUserObjectId,
                                                 kSizeofDouble, "double",
                                                 IF on THEN 1000 ELSE 0),
           ret |-> ok ]

----------------------------------------------------------------------------
(* What the simulator reports.                                             *)

\* The simulation variables behind the 20 keys of the snapshot, in the order
\* of the keys.
SimVars ==
  << "PLANE LATITUDE", "PLANE LONGITUDE", "PLANE ALTITUDE", "INDICATED ALTITUDE",
     "AIRSPEED INDICATED", "AIRSPEED TRUE", "GROUND VELOCITY", "TURB ENG N1:1",
     "SIM ON GROUND", "ENG COMBUSTION:1", "TRANSPONDER CODE:1",
     "ADF ACTIVE FREQUENCY:1", "ADF STANDBY FREQUENCY:1", "VERTICAL SPEED",
     "PLANE PITCH DEGREES", "TURB ENG N1:2", "GEAR HANDLE POSITION",
     "FLAPS HANDLE INDEX", "BRAKE PARKING POSITION", "AUTOPILOT MASTER" >>

SimVarIndex(name) == CHOOSE i \in 1..Len(SimVars) : SimVars[i] = name

\* Two situations of the aircraft; every variable has its own value in each,
\* none of them a rounding tie at its key's precision.
Worlds == { "A", "B" }
SimValue(w, name) ==
  LET i == SimVarIndex(name)
  IN  IF w = "A" THEN i * 1110 + 7 ELSE 0 - (i * 2340 + 3)

\* The tuple the host sends for a definition: the value of each registered
\* variable, in registration order.
DataFor(w, def) == [ i \in 1..Len(def) |-> SimValue(w, def[i].name) ]

\* The messages the host may queue on connection h: a quit, a message of a
\* kind the bridge does not know, data for a request the bridge has issued,
\* and data carrying a request id the bridge has not issued.
Requested(h) == { hostConn[h].subs[i].req : i \in DOMAIN hostConn[h].subs }

HostMessages(h) ==
  LET def == hostConn[h].defs[kDefTelemetry]
  IN  { Message("QUIT", 0, << >>), Message("EXCEPTION", 0, << >>),
        Message("SIMOBJECT_DATA", kOtherRequest, DataFor("A", def)) }
      \cup { Message("SIMOBJECT_DATA", r, DataFor(w, def)) :
               r \in Requested(h), w \in Worlds }

----------------------------------------------------------------------------
(* Arguments the entry points are called with.                             *)

TransponderCodes == { 4608, 30464 }
FrequenciesKHz == { 356000, 1234500 }
FlapsIndexes == { 0, 2 }

----------------------------------------------------------------------------------------------------------------------------------------
(* Steps: the exported entry points (exports.cpp), the host, the clock.    *)
(* What an entry point returns is the ret of the operator it applies.      *)

\* The host accepts an open only while it has handles to hand out.
Accepts(ok) == ok => nextHandle <= MaxHandles

osb_init ==
  \E ok \in BOOLEAN :
    /\ Accepts(ok)
    /\ Commit(EnsureConnected(Begin, now, ok).st)
    /\ UNCHANGED now

module_init ==
  \E ok \in BOOLEAN :
    /\ Accepts(ok)
    /\ Commit(EnsureConnected(Begin, now, ok).st)
    /\ UNCHANGED now

osb_tick ==
  \E ok \in BOOLEAN, cont \in BOOLEAN :
    /\ Accepts(ok)
    /\ Commit(Tick(Begin, now, ok, cont))
    /\ UNCHANGED now

module_deinit ==
  /\ Commit([ Close(Begin) EXCEPT !.closedBy = "deinit" ])
  /\ UNCHANGED now

osb_is_connected ==
  /\ IsConnected(Begin) \in BOOLEAN
  /\ Commit(Begin)
  /\ UNCHANGED now

osb_get_snapshot_json ==
  /\ Commit(GetSnapshotJson(Begin))
  /\ UNCHANGED now

osb_get_snapshot_age_ms ==
  /\ SnapshotAgeMs(Begin, now) >= 0
  /\ Commit(Begin)
  /\ UNCHANGED now

osb_set_transponder_code ==
  \E code \in TransponderCodes, ok \in BOOLEAN :
    Commit(SetTransponderCode(Begin, code, ok).st) /\ UNCHANGED now

osb_set_adf_active_khz ==
  \E v \in FrequenciesKHz, ok \in BOOLEAN :
    Commit(SetAdfActiveKHz(Begin, v, ok).st) /\ UNCHANGED now

osb_set_adf_standby_khz ==
  \E v \in FrequenciesKHz, ok \in BOOLEAN :
    Commit(SetAdfStandbyKHz(Begin, v, ok).st) /\ UNCHANGED now

osb_set_gear_handle ==
  \E on \in 0..1, ok \in BOOLEAN :
    Commit(SetGearHandle(Begin, on # 0, ok).st) /\ UNCHANGED now

osb_set_flaps_index ==
  \E index \in FlapsIndexes, ok \in BOOLEAN :
    Commit(SetFlapsIndex(Begin, index, ok).st) /\ UNCHANGED now

osb_set_parking_brake ==
  \E on \in 0..1, ok \in BOOLEAN :
    Commit(SetParkingBrake(Begin, on # 0, ok).st) /\ UNCHANGED now

osb_set_autopilot_master ==
  \E on \in 0..1, ok \in BOOLEAN :
    Commit(SetAutopilotMaster(Begin, on # 0, ok).st) /\ UNCHANGED now

\* Between two calls of the bridge the host queues a message on a connection.
HostQueues ==
  \E h \in DOMAIN hostConn :
    /\ Len(hostConn[h].queue) < MaxQueue
    /\ \E m \in HostMessages(h) :
         Commit([ Begin EXCEPT !.hostConn[h].queue = Append(@, m) ])
    /\ UNCHANGED now

\* Time passes.
ClockAdvances ==
  /\ now + ClockStep <= MaxTime
  /\ now' = now + ClockStep
  /\ Commit(Begin)

Init ==
  /\ simconnect_ = kNullHandle
  /\ connected_ = FALSE
  /\ snapshot_valid_ = FALSE
  /\ snapshot_ts_ms_ = 0
  /\ last_connect_attempt_ms_ = 0
  /\ snapshot_ = TelemetrySnapshot
  /\ snapshot_json_ = ""
  /\ hostConn = << >>
  /\ nextHandle = 1
  /\ now \in ClockValues
  /\ accepted = FALSE
  /\ lastData = << >>
  /\ openTimes = << >>
  /\ dataHandle = kNullHandle
  /\ closedBy = "none"

Next ==
  \/ osb_init
  \/ module_init
  \/ osb_tick
  \/ module_deinit
  \/ osb_is_connected
  \/ osb_get_snapshot_json
  \/ osb_get_snapshot_age_ms
  \/ osb_set_transponder_code
  \/ osb_set_adf_active_khz
  \/ osb_set_adf_standby_khz
  \/ osb_set_gear_handle
  \/ osb_set_flaps_index
  \/ osb_set_parking_brake
  \/ osb_set_autopilot_master
  \/ HostQueues
  \/ ClockAdvances

Spec == Init /\ [][Next]_vars

----------------------------------------------------------------------------
(* What a caller can observe of the current state.                         *)

\* The string get_snapshot_json() returns now.
JsonNow == GetSnapshotJson(Cur).snapshot_json_

\* The value get_snapshot_age_ms() returns now.
AgeNow == SnapshotAgeMs(Cur, now)

\* Everything the getters of st tell at time t.
Observed(st, t) ==
  << IsConnected(st), HasSnapshot(st), SnapshotAgeMs(st, t),
     GetSnapshotJson(st).snapshot_json_ >>

\* The host calls named f in a trace.
CallsOf(tr, f) == { i \in DOMAIN tr : tr[i].f = f }

----------------------------------------------------------------------------
(* C1 *)

\* C1: two consecutive open attempts (SimConnect_Open calls) are never less
\* than 2000 ms apart, whether the earlier one failed, or succeeded and was
\* followed by a quit or a Close.
C1_OpenAttemptsApart ==
  Len(openTimes) = 2 => openTimes[2] - openTimes[1] >= 2000

\* A second open attempt has been made after a quit ended the first connection.
C1_Witness ==
  /\ Len(openTimes) = 2
  /\ closedBy = "quit"
  /\ connected_

----------------------------------------------------------------------------
(* C2 *)

\* C2: each of the seven setters, called with any argument while the bridge
\* is Disconnected, returns false, makes no host call and leaves the whole
\* bridge state as it was.
C2_SettersWhenDisconnected ==
  ~connected_ =>
    \A ok \in BOOLEAN :
      /\ \A code \in TransponderCodes :
           SetTransponderCode(Begin, code, ok) = [ st |-> Begin, ret |-> FALSE ]
      /\ \A v \in FrequenciesKHz :
           /\ SetAdfActiveKHz(Begin, v, ok) = [ st |-> Begin, ret |-> FALSE ]
           /\ SetAdfStandbyKHz(Begin, v, ok) = [ st |-> Begin, ret |-> FALSE ]
      /\ \A index \in FlapsIndexes :
           SetFlapsIndex(Begin, index, ok) = [ st |-> Begin, ret |-> FALSE ]
      /\ \A on \in BOOLEAN :
           /\ SetGearHandle(Begin, on, ok) = [ st |-> Begin, ret |-> FALSE ]
           /\ SetParkingBrake(Begin, on, ok) = [ st |-> Begin, ret |-> FALSE ]
           /\ SetAutopilotMaster(Begin, on, ok) = [ st |-> Begin, ret |-> FALSE ]

\* The bridge is Disconnected after having been connected, holding a snapshot
\* payload it received, and a setter called now returns false.
C2_Witness ==
  /\ ~connected_
  /\ closedBy # "none"
  /\ snapshot_ # TelemetrySnapshot
  /\ ~SetGearHandle(Begin, TRUE, TRUE).ret

----------------------------------------------------------------------------
(* C3 *)

\* C3: after every successful open, until the first data message of that
\* connection has been accepted, HasSnapshot() is false and
\* get_snapshot_json() returns "{}"; data of an earlier connection is never
\* reported after a later open.
C3_EmptyUntilFirstData ==
  (connected_ /\ dataHandle # simconnect_) =>
    (~HasSnapshot(Cur) /\ JsonNow = "{}")

----------------------------------------------------------------------------
(* C4 *)

\* The keys of the serialized snapshot and the decimals of each, in the
\* documented order.
Keys ==
  << "latitude", "longitude", "altitude_ft_true", "altitude_ft_indicated",
     "ias_kt", "tas_kt", "ground_velocity_mps", "turbine_n1_pct", "on_ground",
     "engine_combustion", "transponder_code", "adf_active_freq_khz",
     "adf_standby_freq_khz", "vertical_speed_fpm", "pitch_deg",
     "turbine_n1_pct_2", "gear_handle", "flaps_index", "parking_brake",
     "autopilot_master" >>

Decimals == << 8, 8, 2, 2, 2, 2, 3, 2, 0, 0, 0, 3, 3, 1, 2, 2, 0, 0, 0, 0 >>

RECURSIVE Members(_, _)
Members(t, i) ==
  IF i > Len(Keys)
    THEN ""
    ELSE (IF i > 1 THEN "," ELSE "") \o "\"" \o Keys[i] \o "\":"
         \o FormatF(t[i], Decimals[i]) \o Members(t, i + 1)

Serialized(t) == "{" \o Members(t, 1) \o "}"

\* The aircraft's situation w as the tuple of the 20 keys' variables.
Reading(w) == [ i \in 1..Len(Keys) |-> SimValue(w, SimVars[i]) ]

\* What printf writes for the two situations.
GoldenA ==
  "{\"latitude\":1.11700000,\"longitude\":2.22700000,\"altitude_ft_true\":3.34,\"altitude_ft_indicated\":4.45,\"ias_kt\":5.56,\"tas_kt\":6.67,\"ground_velocity_mps\":7.777,\"turbine_n1_pct\":8.89,\"on_ground\":10,\"engine_combustion\":11,\"transponder_code\":12,\"adf_active_freq_khz\":13.327,\"adf_standby_freq_khz\":14.437,\"vertical_speed_fpm\":15.5,\"pitch_deg\":16.66,\"turbine_n1_pct_2\":17.77,\"gear_handle\":19,\"flaps_index\":20,\"parking_brake\":21,\"autopilot_master\":22}"

GoldenB ==
  "{\"latitude\":-2.34300000,\"longitude\":-4.68300000,\"altitude_ft_true\":-7.02,\"altitude_ft_indicated\":-9.36,\"ias_kt\":-11.70,\"tas_kt\":-14.04,\"ground_velocity_mps\":-16.383,\"turbine_n1_pct\":-18.72,\"on_ground\":-21,\"engine_combustion\":-23,\"transponder_code\":-26,\"adf_active_freq_khz\":-28.083,\"adf_standby_freq_khz\":-30.423,\"vertical_speed_fpm\":-32.8,\"pitch_deg\":-35.10,\"turbine_n1_pct_2\":-37.44,\"gear_handle\":-40,\"flaps_index\":-42,\"parking_brake\":-44,\"autopilot_master\":-47}"

Golden(w) == IF w = "A" THEN GoldenA ELSE GoldenB

\* C4: whenever HasSnapshot() is true, get_snapshot_json() is the
\* serialization of the 20-value tuple of the most recently accepted data
\* message: the i-th key, in the documented order and with its documented
\* decimals, carries the i-th slot of that tuple, and that slot is the value
\* of the variable behind the i-th key (the i-th field of the bulk definition).
C4_SnapshotIsLastData ==
  HasSnapshot(Cur) =>
    /\ Len(lastData) = Len(Keys)
    /\ JsonNow = Serialized(lastData)
    /\ \E w \in Worlds : lastData = Reading(w) /\ JsonNow = Golden(w)

\* A second data message has replaced the snapshot of a first, different one.
C4_Witness ==
  /\ HasSnapshot(Cur)
  /\ connected_
  /\ lastData = Reading("B")
  /\ snapshot_ts_ms_ > openTimes[Len(openTimes)]
  /\ JsonNow = GoldenB

----------------------------------------------------------------------------
(* C5 *)

\* C5, as claimed: over any step that accepts no data message,
\* get_snapshot_age_ms() does not decrease; right after a step that accepts
\* one it is 0.
C5_AgeNeverDecreases ==
  [][ /\ ~accepted' => AgeNow' >= AgeNow
      /\ accepted' => AgeNow' = 0 ]_vars

\* C5, amended: over any step that accepts no data message,
\* get_snapshot_age_ms() does not decrease as long as the snapshot stays
\* valid; once a quit or Close() has made it invalid the value is 0; right
\* after a step that accepts a data message it is 0.
C5_AgeNeverDecreasesWhileValid ==
  [][ /\ (~accepted' /\ snapshot_valid_') => (snapshot_valid_ /\ AgeNow' >= AgeNow)
      /\ (~accepted' /\ ~snapshot_valid_') => AgeNow' = 0
      /\ accepted' => AgeNow' = 0 ]_vars

\* The snapshot has aged.
C5_Witness ==
  /\ snapshot_valid_
  /\ ~accepted
  /\ AgeNow >= 2 * ClockStep

----------------------------------------------------------------------------
(* C6 *)

\* The variable each write definition addresses.
WriteField(def) ==
  CASE def = kDefTransponder  -> "TRANSPONDER CODE:1"
    [] def = kDefAdfActive    -> "ADF ACTIVE FREQUENCY:1"
    [] def = kDefAdfStandby   -> "ADF STANDBY FREQUENCY:1"
    [] def = kDefGearHandle   -> "GEAR HANDLE POSITION"
    [] def = kDefFlapsIndex   -> "FLAPS HANDLE INDEX"
    [] def = kDefParkingBrake -> "BRAKE PARKING POSITION"
    [] def = kDefAutopilot    -> "AUTOPILOT MASTER"

FieldNames(def) == [ i \in 1..Len(def) |-> def[i].name ]

\* Connection c holds the bulk definition with the 20 read fields once each
\* in order, each write definition with its one field, and one periodic
\* subscription of the bulk definition.
Registered(c) ==
  /\ FieldNames(c.defs[kDefTelemetry]) = SimVars
  /\ \A d \in DefIds \ { kDefTelemetry } :
       FieldNames(c.defs[d]) = << WriteField(d) >>
  /\ c.subs = << [ req |-> kRequestTelemetry, def |-> kDefTelemetry,
                   obj |-> kUserObjectId, period |-> "SECOND",
                   flag |-> "CHANGED" ] >>

\* C6: a tick() of a Disconnected bridge (after a quit, for one) at least
\* 2000 ms after the previous open attempt, the host accepting the open,
\* leaves the bridge Connected on a new handle that holds exactly the
\* definitions and the one subscription; and the live handle of a Connected
\* bridge never holds more than that.
C6_ReconnectRegistersOnce ==
  /\ (~connected_ /\ now - last_connect_attempt_ms_ >= 2000) =>
       \A cont \in BOOLEAN :
         LET r == Tick(Begin, now, TRUE, cont)
         IN  /\ r.connected_
             /\ r.simconnect_ # kNullHandle
             /\ r.simconnect_ \notin DOMAIN hostConn
             /\ r.simconnect_ >= nextHandle
             /\ r.simconnect_ \in DOMAIN r.hostConn
             /\ Registered(r.hostConn[r.simconnect_])
  /\ connected_ =>
       /\ simconnect_ \in DOMAIN hostConn
       /\ Registered(hostConn[simconnect_])

\* The bridge is Connected again, on a second handle, after a quit.
C6_Witness ==
  /\ connected_
  /\ closedBy = "quit"
  /\ simconnect_ > 1
  /\ Len(openTimes) = 2
  /\ openTimes[2] = now

----------------------------------------------------------------------------
(* C7 *)

\* C7: init() on a bridge that has never attempted a connection makes exactly
\* one open attempt, whatever the clock reads, and returns 1 iff the attempt
\* succeeded.
C7_FirstInitAttemptsOnce ==
  openTimes = << >> =>
    \A ok \in BOOLEAN :
      LET r == EnsureConnected(Begin, now, ok)
      IN  /\ Cardinality(CallsOf(r.st.trace, "Open")) = 1
          /\ r.ret <=> ok

----------------------------------------------------------------------------
(* C8 *)

\* C8: EnsureConnected() called while Connected returns true, makes no host
\* call and leaves every field of the bridge and the host as it was.
C8_EnsureConnectedWhenConnected ==
  connected_ =>
    \A ok \in BOOLEAN :
      EnsureConnected(Begin, now, ok) = [ st |-> Begin, ret |-> TRUE ]

\* The bridge is Connected and the cooldown since its last attempt is over.
C8_Witness ==
  /\ connected_
  /\ now - last_connect_attempt_ms_ >= 2000
  /\ snapshot_valid_
  /\ EnsureConnected(Begin, now, TRUE).ret

----------------------------------------------------------------------------
(* C9 *)

\* C9: Close() leaves the bridge Disconnected, without a handle, the handle
\* it had released, the snapshot invalid (age 0, "{}"), the payload and the
\* time of the last attempt as they were; a second Close() changes nothing
\* and makes no host call; Close() of a Disconnected bridge makes no host
\* call.
C9_Close ==
  LET c  == Close(Begin)
      c0 == [ c EXCEPT !.trace = << >> ]
  IN  /\ ~IsConnected(c)
      /\ c.simconnect_ = kNullHandle
      /\ DOMAIN c.hostConn = (DOMAIN hostConn) \ { simconnect_ }
      /\ ~HasSnapshot(c)
      /\ SnapshotAgeMs(c, now) = 0
      /\ GetSnapshotJson(c).snapshot_json_ = "{}"
      /\ c.snapshot_ = snapshot_
      /\ c.last_connect_attempt_ms_ = last_connect_attempt_ms_
      /\ c.snapshot_ts_ms_ = snapshot_ts_ms_
      /\ Close(c0) = c0
      /\ ~connected_ => c.trace = << >>

\* Close() has ended a connection that held a snapshot; the payload is kept.
C9_Witness ==
  /\ ~connected_
  /\ closedBy = "deinit"
  /\ simconnect_ = kNullHandle
  /\ snapshot_ # TelemetrySnapshot
  /\ JsonNow = "{}"

----------------------------------------------------------------------------
(* C10 *)

\* C10: EnsureConnected() returns true iff the bridge is Connected after the
\* call; when it returns false (cooldown active, or open failed) the bridge
\* is Disconnected, no field was registered, no subscription was issued, the
\* snapshot is as it was, and the getters tell the same as before the call,
\* so that the two causes look the same.
C10_EnsureConnectedResult ==
  \A ok \in BOOLEAN :
    LET r == EnsureConnected(Begin, now, ok)
    IN  /\ r.ret <=> IsConnected(r.st)
        /\ ~r.ret =>
             /\ ~IsConnected(r.st)
             /\ CallsOf(r.st.trace, "AddToDataDefinition") = {}
             /\ CallsOf(r.st.trace, "RequestDataOnSimObject") = {}
             /\ r.st.hostConn = hostConn
             /\ r.st.snapshot_valid_ = snapshot_valid_
             /\ r.st.snapshot_ts_ms_ = snapshot_ts_ms_
             /\ r.st.snapshot_ = snapshot_
             /\ r.st.snapshot_json_ = snapshot_json_
             /\ Observed(r.st, now) = Observed(Begin, now)

\* An open has just failed, and a further call now is stopped by the cooldown.
C10_Witness ==
  /\ ~connected_
  /\ openTimes # << >>
  /\ openTimes[Len(openTimes)] = now
  /\ DOMAIN hostConn = {}
  /\ ~EnsureConnected(Begin, now, TRUE).ret

----------------------------------------------------------------------------
(* C11 *)

\* What a setter call on state st did: the input ok (whether the host accepts
\* the write), the value returned, the host calls made, whether the state is
\* otherwise as it was, the simulation variable the setter is for, and the
\* value it is to write, as a double.
Outcome(st, r, ok, field, val) ==
  [ ok |-> ok, ret |-> r.ret, trace |-> r.st.trace,
    same |-> ([ r.st EXCEPT !.trace = << >> ] = [ st EXCEPT !.trace = << >> ]),
    field |-> field, val |-> val ]

\* Every call of a setter on state st.
SetterCalls(st) ==
  UNION { { Outcome(st, SetTransponderCode(st, code, ok), ok,
                    "TRANSPONDER CODE:1", code * 1000)
              : code \in TransponderCodes }
          \union
          { Outcome(st, SetAdfActiveKHz(st, v, ok), ok,
                    "ADF ACTIVE FREQUENCY:1", v)
              : v \in FrequenciesKHz }
          \union
          { Outcome(st, SetAdfStandbyKHz(st, v, ok), ok,
                    "ADF STANDBY FREQUENCY:1", v)
              : v \in FrequenciesKHz }
          \union
          { Outcome(st, SetGearHandle(st, on, ok), ok,
                    "GEAR HANDLE POSITION", IF on THEN 1000 ELSE 0)
              : on \in BOOLEAN }
          \union
          { Outcome(st, SetFlapsIndex(st, index, ok), ok,
                    "FLAPS HANDLE INDEX", index * 1000)
              : index \in FlapsIndexes }
          \union
          { Outcome(st, SetParkingBrake(st, on, ok), ok,
                    "BRAKE PARKING POSITION", IF on THEN 1000 ELSE 0)
              : on \in BOOLEAN }
          \union
          { Outcome(st, SetAutopilotMaster(st, on, ok), ok,
                    "AUTOPILOT MASTER", IF on THEN 1000 ELSE 0)
              : on \in BOOLEAN }
          : ok \in BOOLEAN }

\* C11: each setter called while the bridge is Connected makes exactly one
\* host call, a write on the bridge's handle to the user object through a
\* definition other than the bulk one whose only field is the setter's own
\* simulation variable; it returns true exactly when the host accepted the
\* write, and it leaves the whole bridge state as it was.
C11_SettersWhenConnected ==
  connected_ =>
    /\ simconnect_ \in DOMAIN hostConn
    /\ \A c \in SetterCalls(Begin) :
         /\ c.ret = c.ok
         /\ Len(c.trace) = 1
         /\ LET w == c.trace[1]
            IN  /\ w.f = "SetDataOnSimObject"
                /\ w.h = simconnect_
                /\ w.obj = kUserObjectId
                /\ w.def \in DefIds \ { kDefTelemetry }
                /\ FieldNames(hostConn[simconnect_].defs[w.def]) = << c.field >>
         /\ c.same

\* The bridge is Connected and holds a snapshot, and the host rejects a write
\* of the standby frequency: the setter makes its one call and returns false.
C11_Witness ==
  /\ connected_
  /\ snapshot_valid_
  /\ \E v \in FrequenciesKHz :
       LET r == SetAdfStandbyKHz(Begin, v, FALSE)
       IN  ~r.ret /\ Len(r.st.trace) = 1

----------------------------------------------------------------------------
(* C12 *)

\* C12: the payload of every write matches the definition it is written
\* through: each write definition holds one field of the default datum type
\* (FLOAT64, 8 bytes), and every setter, SetTransponderCode included, called
\* while the bridge is Connected submits one 8-byte floating-point value,
\* 1.0 or 0.0 for the boolean setters and the index as a double for
\* SetFlapsIndex.
C12_PayloadMatchesDefinition ==
  (connected_ /\ simconnect_ \in DOMAIN hostConn) =>
    \A c \in SetterCalls(Begin) :
      \A i \in CallsOf(c.trace, "SetDataOnSimObject") :
        LET w == c.trace[i]
            d == hostConn[simconnect_].defs[w.def]
        IN  /\ Len(d) = 1
            /\ d[1].type = "FLOAT64"
            /\ d[1].size = kSizeofDouble
            /\ w.size = d[1].size
            /\ w.kind = "double"
            /\ w.val = c.val

----------------------------------------------------------------------------
(* C13 *)

\* C13, as claimed: over any step that accepts no data message, whichever
\* call or event it is, get_snapshot_json() returns the same string after
\* the step as before it, and a read does not change what the next read
\* returns.
C13_ReadsAgree ==
  [][ /\ ~accepted' => JsonNow' = JsonNow
      /\ GetSnapshotJson(GetSnapshotJson(Cur)).snapshot_json_ = JsonNow ]_vars

\* C13, amended: over any step that accepts no data message,
\* get_snapshot_json() returns the same string after the step as before it
\* as long as the snapshot stays valid; once a quit or Close() has made it
\* invalid the string returned is "{}"; and a read does not change what the
\* next read returns.
C13_ReadsAgreeWhileValid ==
  [][ /\ (~accepted' /\ snapshot_valid_') => (snapshot_valid_ /\ JsonNow' = JsonNow)
      /\ (~accepted' /\ ~snapshot_valid_') => JsonNow' = "{}"
      /\ GetSnapshotJson(GetSnapshotJson(Cur)).snapshot_json_ = JsonNow ]_vars

\* A snapshot is held, the last step accepted no data message, time has
\* passed since the snapshot arrived, and a read returns its serialization.
C13_Witness ==
  /\ snapshot_valid_
  /\ ~accepted
  /\ now > snapshot_ts_ms_
  /\ JsonNow = Serialized(lastData)

----------------------------------------------------------------------------
(* C14 *)

\* The messages HandleDispatch has no case for, or filters out: the open
\* message, a message of another kind, data for another request.
IgnoredMessages ==
  { Message("OPEN", 0, << >>), Message("EXCEPTION", 0, << >>) }
    \cup { Message("SIMOBJECT_DATA", kOtherRequest, Reading(w)) : w \in Worlds }

DataMessages ==
  { Message("SIMOBJECT_DATA", kRequestTelemetry, Reading(w)) : w \in Worlds }

----------------------------------------------------------------------------
(* C15 *)

\* Message ev was handed to the dispatch handler during the step.
Dispatched(st, id) == \E i \in DOMAIN st.delivered : st.delivered[i].id = id

\* The state a step leaves behind, as the next step finds it.
Settled(st) == [ st EXCEPT !.trace = << >>, !.delivered = << >>, !.accepted = FALSE ]

\* C15: when a tick() dispatches a quit message, then at its return the
\* bridge is Disconnected, its handle is null and closed at the host, and
\* the snapshot is invalid; the tick makes no open attempt and leaves the
\* cooldown timestamp at the time of the previous open attempt, so that a
\* later EnsureConnected() makes an open attempt exactly when 2000 ms have
\* passed since that attempt.
C15_QuitDuringTick ==
  \A ok \in BOOLEAN, cont \in BOOLEAN :
    LET r == Tick(Begin, now, ok, cont)
    IN  Dispatched(r, "QUIT") =>
          /\ ~r.connected_
          /\ r.simconnect_ = kNullHandle
          /\ simconnect_ \notin DOMAIN r.hostConn
          /\ ~r.snapshot_valid_
          /\ CallsOf(r.trace, "Open") = {}
          /\ CallsOf(r.trace, "Close") # {}
          /\ r.last_connect_attempt_ms_ = openTimes[Len(openTimes)]
          /\ \A t \in { u \in ClockValues : u >= now } :
               (CallsOf(EnsureConnected(Settled(r), t, TRUE).st.trace, "Open") # {})
                 <=> (t - openTimes[Len(openTimes)] >= kCooldownMs)

----------------------------------------------------------------------------
(* C16 *)

\* The messages queued on the bridge's handle in state st.
Pending(st) ==
  IF st.simconnect_ \in DOMAIN st.hostConn
    THEN st.hostConn[st.simconnect_].queue
    ELSE << >>

----------------------------------------------------------------------------
(* C17 *)

\* The clock time from which the host accepts every open attempt.
HostUpAt == 3 * ClockStep

\* A step in which an open attempt is made once the host is up connects.
HostAccepts == (now >= HostUpAt /\ openTimes' # openTimes) => connected_'

LiveNext == Next /\ HostAccepts

\* A tick() during which the host accepts an open attempt, if one is made.
TickHostUp ==
  \E cont \in BOOLEAN :
    /\ nextHandle <= MaxHandles
    /\ \E r \in { Tick(Begin, now, TRUE, cont) } : Commit(r)
    /\ UNCHANGED now

\* The host may reject open attempts until HostUpAt and accepts them from
\* then on; tick() keeps being called and the clock keeps advancing.
LiveSpec ==
  /\ Init
  /\ [][LiveNext]_vars
  /\ WF_vars(TickHostUp)
  /\ WF_vars(ClockAdvances)

\* The bridge is Disconnected and the bounds of the model leave room for one
\* more open: a handle is left, a clock value is left at which the host is
\* up and the cooldown of the last attempt is over, and one is left for the
\* cooldown of any attempt the host may still reject.
CanStillOpen ==
  /\ ~connected_
  /\ nextHandle <= MaxHandles
  /\ \E t \in ClockValues :
       t >= now /\ t >= HostUpAt /\ t - last_connect_attempt_ms_ >= kCooldownMs
  /\ now < HostUpAt =>
       \E t \in ClockValues : t >= (HostUpAt - ClockStep) + kCooldownMs

\* C17: from every reachable state in which the bridge is Disconnected
\* (never connected, open rejected, inside the cooldown, after a quit, after
\* Close()), if tick() keeps being called, the clock keeps advancing and
\* the host accepts opens from some time on, the bridge is eventually
\* Connected.
C17_EventuallyConnected == [](CanStillOpen => <>connected_)

\* The host rejected the first open attempt and accepted a later one, made
\* when the host was up: the bridge is Connected on the first handle.
C17_Witness ==
  /\ connected_
  /\ simconnect_ = 1
  /\ Len(openTimes) = 2
  /\ openTimes[1] < HostUpAt
  /\ openTimes[2] >= HostUpAt

----------------------------------------------------------------------------
(* C18 *)

\* C18: whenever the bridge is Disconnected the snapshot is invalid:
\* HasSnapshot() is false, get_snapshot_json() returns "{}" and
\* get_snapshot_age_ms() returns 0, also after a pump in which the host
\* delivered further messages, a bulk data message among them, behind a quit
\* message.
C18_DisconnectedHasNoSnapshot ==
  ~IsConnected(Cur) =>
    /\ ~HasSnapshot(Cur)
    /\ JsonNow = "{}"
    /\ AgeNow = 0

----------------------------------------------------------------------------
(* C19 *)

\* Every host call in trace tr was made on a handle open at that moment
\* (an open: while no handle was open), none on a null handle.
OnOpenHandle(tr) ==
  \A i \in DOMAIN tr :
    /\ tr[i].live
    /\ tr[i].f # "Open" => tr[i].h # kNullHandle

\* C19: the bridge is Connected exactly when it holds a handle, and that
\* handle is open at the host; at most one handle is open at any time, the
\* bridge's own, so that every handle was closed before the next open; and
\* every host call of tick(), EnsureConnected(), Close() and the setters,
\* for every input, is made on the handle that is open
\* at the moment of the call, never on a null or closed one (an open:
\* while no handle is open).
C19_OneOpenHandle ==
  /\ connected_ <=> simconnect_ # kNullHandle
  /\ connected_ <=> simconnect_ \in DOMAIN hostConn
  /\ DOMAIN hostConn \subseteq { simconnect_ }
  /\ Cardinality(DOMAIN hostConn) <= 1
  /\ \A ok \in BOOLEAN, cont \in BOOLEAN :
       \A r \in { Tick(Begin, now, ok, cont) } :
         Cardinality(DOMAIN r.hostConn) <= 1 /\ OnOpenHandle(r.trace)
  /\ \A ok \in BOOLEAN :
       \A r \in { EnsureConnected(Begin, now, ok).st } :
         Cardinality(DOMAIN r.hostConn) <= 1 /\ OnOpenHandle(r.trace)
  /\ \A r \in { Close(Begin) } :
       Cardinality(DOMAIN r.hostConn) <= 1 /\ OnOpenHandle(r.trace)
  /\ \A c \in SetterCalls(Begin) : OnOpenHandle(c.trace)

\* The bridge is Connected on its second handle, the first one closed, and
\* a tick() pumps on the second.
C19_Witness ==
  /\ connected_
  /\ simconnect_ = 2
  /\ DOMAIN hostConn = { 2 }
  /\ \E i \in DOMAIN Tick(Begin, now, TRUE, TRUE).trace :
       LET c == Tick(Begin, now, TRUE, TRUE).trace[i]
       IN  c.f = "CallDispatch" /\ c.h = 2 /\ c.live

====
